---- MODULE Spec2Model ----
(***************************************************************************)
(* Model of document_format_mcp_server: the retry engine that wraps every  *)
(* Google API call (GoogleWorkspaceReader / GoogleWorkspaceWriter          *)
(* ._execute_with_retry), the cloud read / create operations built on it,  *)
(* the local readers and writers with their result values, the tool        *)
(* handlers that answer for them, and (FormatSpec) single runs of the      *)
(* readers' and writers' helpers on sheets, decks, style names and tables. *)
(***************************************************************************)
EXTENDS Integers, Sequences, FiniteSets, TLC

VARIABLES
    eng,      \* the running _execute_with_retry call (locals, worker, final outcome)
    twin,     \* the same call replayed with every 503 failure replaced by a timeout
    observed, \* per attempt of eng: how the wrapped function behaved (for the claims)
    op,       \* the operation in progress: name, its remote calls, position
    result,   \* what the operation handed back to its caller
    fs,       \* the file at the output path of a local write
    remote,   \* the remote document of a cloud create operation
    response, \* what the tool handler of the operation answered
    calc      \* one run of a reader's or writer's helper: input, locals, output

vars == <<eng, twin, observed, op, result, fs, remote, response, calc>>

(***************************** bounds ***************************************)
\* largest max_retries a reader/writer is constructed with (the default is 3)
MaxRetriesBound == 3
\* largest number of sheets of a remote spreadsheet / of an input workbook
MaxItems == 2
\* largest number of sheets of a workbook / slides of a deck that is read,
\* and largest max_sheets / max_slides of a reader
MaxDeck == 3
\* longest style name, in symbols of StyleChars
MaxNameLen == 4
\* largest column index given to _get_column_letter
MaxColumn == 704
\* largest number of rows / of columns of a sheet or of table data
MaxRows == 2
MaxCols == 2
\* largest number of paragraphs / of tables of one section
MaxParagraphs == 1
\* longest content string of a bullet slide, in characters
MaxContentLen == 4

(***************************** constants of the code ************************)
DefaultMaxRetries == 3
\* default max_slides of PowerPointReader and max_sheets of ExcelReader
DefaultMaxSlides == 500
DefaultMaxSheets == 100
\* longest sheet title the xlsx format allows
ExcelTitleLimit == 31
\* what create_document adds to its cursor for an inserted table
TableBasicSize == 3
RetryableStatuses == {429, 500, 502, 503, 504}
\* HTTP statuses the remote side answers with in the model
HttpStatuses == {400, 403, 404} \cup RetryableStatuses

(***************************** errors and call behaviours *******************)
\* An exception value: its Python type and, for HttpError, resp.status.
Err(type, status) == [type |-> type, status |-> status]
NoErr == Err("None", 0)
HttpErr(s) == Err("HttpError", s)
SocketErr == Err("socket.error", 0)
\* the TimeoutError the engine itself builds when future.result times out
EngineTimeoutErr == Err("TimeoutError(api_timeout)", 0)
\* a TimeoutError / socket.timeout raised by the wrapped function itself
FuncTimeoutErr == Err("TimeoutError", 0)
OtherErr == Err("ValueError", 0)
APIErr == Err("APIError", 0)

\* What one invocation of the wrapped function does: it ends "intime"
\* (within api_timeout), "late" (after api_timeout) or never ("hang"), and
\* when it ends it returns ("ok") or raises res.err.
Res(kind, err) == [kind |-> kind, err |-> err]
NoRes == Res("none", NoErr)
OkRes == Res("ok", NoErr)
Results == {OkRes, Res("raise", SocketErr), Res("raise", FuncTimeoutErr),
            Res("raise", OtherErr)}
           \cup {Res("raise", HttpErr(s)) : s \in HttpStatuses}
Call(timing, res) == [timing |-> timing, res |-> res]
NoCall == Call("none", NoRes)

\* The behaviours an invocation can show.  The reader drops the future of a
\* timed-out attempt, so the value a late worker ends with is never read.
Behaviours(side) ==
    {Call("intime", r) : r \in Results}
    \cup {Call("hang", NoRes)}
    \cup (IF side = "reader" THEN {Call("late", NoRes)}
                             ELSE {Call("late", r) : r \in Results})

(***************************** _execute_with_retry **************************)
Pow2(n) == 2 ^ n

NoFinal == [kind |-> "none", exc |-> NoErr, value |-> 0, last_error |-> NoErr]

\* State of one _execute_with_retry call right after `last_exception = None`.
EngStart(side, max_retries, futures_timeout_is_builtin) ==
    [side |-> side, max_retries |-> max_retries,
     ftb |-> futures_timeout_is_builtin,
     pc |-> "loop", attempt |-> 0,
     call |-> NoCall,   \* behaviour of the latest invocation of request_func
     invocations |-> 0, inflight |-> 0, elapsed |-> FALSE,
     sleeps |-> << >>, last_exception |-> NoErr, final |-> NoFinal]

EngIdle == [EngStart("none", 0, FALSE) EXCEPT !.pc = "idle"]

\* time.sleep(2 ** attempt), recorded with the attempt it follows
Sleep(e) == [e EXCEPT !.sleeps = Append(@, [after |-> e.attempt,
                                            secs |-> Pow2(e.attempt)])]

\* next iteration of `for attempt in range(self.max_retries)`
NextAttempt(e) == [e EXCEPT !.attempt = @ + 1, !.pc = "loop",
                            !.elapsed = FALSE]

\* variant of RaiseOut: the exception is swallowed and the loop goes on
RaiseOut_Continues(e, exc) ==
    NextAttempt(e)

\* the call leaves _execute_with_retry by `raise` of exc
RaiseOut(e, exc) ==
    [e EXCEPT !.pc = "done",
              !.final = [kind |-> "raise", exc |-> exc, value |-> 0,
                         last_error |-> NoErr]]

\* loop head: request_func is invoked (reader: executor.submit)
EngSubmit(e, c) ==
    IF e.pc = "loop" /\ e.attempt < e.max_retries
    THEN [e EXCEPT !.pc = "waiting", !.call = c, !.elapsed = FALSE,
                   !.invocations = @ + 1, !.inflight = @ + 1]
    ELSE e

\* `except concurrent.futures.TimeoutError` of the reader: the sleep is
\* skipped after the last attempt; `continue` then leaves the `with` block.
ReaderInnerTimeout(e) ==
    LET e1 == [e EXCEPT !.last_exception = EngineTimeoutErr]
    IN  IF e.attempt < e.max_retries - 1 THEN Sleep(e1) ELSE e1

\* variant of OnHttpError: the status is not looked at, every HttpError is retried
OnHttpError_RetryAll(e, exc) ==
    NextAttempt(Sleep([e EXCEPT !.last_exception = exc]))

\* `except HttpError`: retry with backoff on 429/5xx, re-raise otherwise
OnHttpError(e, exc) ==
    LET e1 == [e EXCEPT !.last_exception = exc]
    IN  IF exc.status \in RetryableStatuses
        THEN NextAttempt(Sleep(e1))
        ELSE RaiseOut(e1, exc)

\* variant of OnNetworkError: the network error is re-raised, not retried
OnNetworkError_NoRetry(e, exc) ==
    RaiseOut([e EXCEPT !.last_exception = exc], exc)

\* `except (socket.error, socket.timeout, TimeoutError)`
OnNetworkError(e, exc) ==
    NextAttempt(Sleep([e EXCEPT !.last_exception = exc]))

\* variant of HandleEnd: a result is not returned, the loop goes on
HandleEnd_NoReturn(e, r) ==
    LET e0 == [e EXCEPT !.inflight = @ - 1]
    IN  CASE r.kind = "ok" -> NextAttempt(e0)
          [] r.kind = "raise" /\ r.err.type = "HttpError" ->
               OnHttpError(e0, r.err)
          [] r.kind = "raise" /\ r.err = FuncTimeoutErr
                              /\ e.side = "reader" /\ e.ftb ->
               NextAttempt(ReaderInnerTimeout(e0))
          [] r.kind = "raise" /\ r.err \in {SocketErr, FuncTimeoutErr} ->
               OnNetworkError(e0, r.err)
          [] OTHER -> RaiseOut(e0, r.err)

\* the wrapped function has ended and the engine handles what it ended with
HandleEnd(e, r) ==
    LET e0 == [e EXCEPT !.inflight = @ - 1]
    IN  CASE r.kind = "ok" ->
               [e0 EXCEPT !.pc = "done",
                          !.final = [kind |-> "return", exc |-> NoErr,
                                     value |-> e.invocations,
                                     last_error |-> NoErr]]
          [] r.kind = "raise" /\ r.err.type = "HttpError" ->
               OnHttpError(e0, r.err)
          [] r.kind = "raise" /\ r.err = FuncTimeoutErr
                              /\ e.side = "reader" /\ e.ftb ->
               \* Python >= 3.11: concurrent.futures.TimeoutError is the
               \* builtin TimeoutError, so the inner clause catches it
               NextAttempt(ReaderInnerTimeout(e0))
          [] r.kind = "raise" /\ r.err \in {SocketErr, FuncTimeoutErr} ->
               OnNetworkError(e0, r.err)
          [] OTHER -> RaiseOut(e0, r.err)

\* the wrapped function ends while the engine waits for it
EngReturn(e) ==
    IF /\ e.pc = "waiting"
       /\ \/ e.call.timing = "intime"
          \/ e.side = "writer" /\ e.call.timing = "late" /\ e.elapsed
    THEN HandleEnd(e, e.call.res)
    ELSE e

\* variant of EngTimeout: the reader's executor is left without waiting for
\* its worker (shutdown(wait=False))
EngTimeout_NoJoin(e) ==
    IF e.pc = "waiting" /\ e.call.timing \in {"late", "hang"} /\ ~e.elapsed
    THEN IF e.side = "reader"
         THEN NextAttempt(ReaderInnerTimeout(e))
         ELSE [e EXCEPT !.elapsed = TRUE]
    ELSE e

\* api_timeout seconds pass before the wrapped function has ended.  The
\* reader's future.result(timeout=...) raises; the writer calls request_func
\* directly and nothing watches the clock.
EngTimeout(e) ==
    IF e.pc = "waiting" /\ e.call.timing \in {"late", "hang"} /\ ~e.elapsed
    THEN IF e.side = "reader"
         THEN [ReaderInnerTimeout(e) EXCEPT !.elapsed = TRUE, !.pc = "joining"]
         ELSE [e EXCEPT !.elapsed = TRUE]
    ELSE e

\* leaving `with ThreadPoolExecutor(...)` runs shutdown(wait=True): the
\* engine goes on only when the worker has ended
EngJoin(e) ==
    IF e.pc = "joining" /\ e.call.timing = "late"
    THEN NextAttempt([e EXCEPT !.inflight = @ - 1])
    ELSE e

\* range(self.max_retries) is used up: raise APIError(details.last_error)
EngExhausted(e) ==
    IF e.pc = "loop" /\ e.attempt >= e.max_retries
    THEN [e EXCEPT !.pc = "done",
                   !.final = [kind |-> "raise", exc |-> APIErr, value |-> 0,
                              last_error |-> e.last_exception]]
    ELSE e

(***************************** the replayed call ****************************)
\* The replay sees a timeout wherever eng's wrapped function fails with 503:
\* the reader's worker outlives api_timeout; the writer, which has no clock
\* of its own, gets the transport's TimeoutError after api_timeout.
TwinSubst(side, c) ==
    IF c = Call("intime", Res("raise", HttpErr(503)))
    THEN IF side = "reader" THEN Call("late", NoRes)
                            ELSE Call("late", Res("raise", FuncTimeoutErr))
    ELSE c

\* the replay runs its current attempt to the end
TwinFinishAttempt(t) ==
    IF t.call.timing = "late"
    THEN IF t.side = "reader" THEN EngJoin(EngTimeout(t))
                              ELSE EngReturn(EngTimeout(t))
    ELSE EngReturn(t)

\* how the claims class one invocation of the wrapped function
ClassOf(side, c) ==
    CASE c.timing = "hang" -> "hang"
      [] c.timing = "late" /\ side = "reader" -> "timeout"
      [] c.res.kind = "ok" -> "ok"
      [] c.res.err.type = "HttpError" ->
            IF c.res.err.status \in RetryableStatuses
            THEN "retryable_http" ELSE "terminal_http"
      [] c.res.err = SocketErr -> "network"
      [] c.res.err = FuncTimeoutErr -> "timeout"
      [] OTHER -> "other"

RetryableClasses == {"retryable_http", "network", "timeout"}

(***************************** results **************************************)
\* ret: what kind of value came back ("ReadResult", "WriteResult", "dict",
\* "str") or "raise"; content / output_path / url are "null" or "set";
\* error is "null" (None) or the message; detail is the exception whose
\* str() the message embeds (for "raise": the exception raised).
Result(ret, success, content, output_path, url, error, detail) ==
    [ret |-> ret, success |-> success, content |-> content,
     output_path |-> output_path, url |-> url, error |-> error,
     detail |-> detail]
NoResult == Result("none", FALSE, "null", "null", "null", "null", NoErr)

ReadOk == Result("ReadResult", TRUE, "set", "null", "null", "null", NoErr)
ReadFailed(error, detail) ==
    Result("ReadResult", FALSE, "null", "null", "null", error, detail)
WriteOkLocal == Result("WriteResult", TRUE, "null", "set", "null", "null", NoErr)
WriteOkCloud == Result("WriteResult", TRUE, "null", "null", "set", "null", NoErr)
WriteFailed(error, detail) ==
    Result("WriteResult", FALSE, "null", "null", "null", error, detail)
Raised(exc) == Result("raise", FALSE, "null", "null", "null", "null", exc)

(***************************** cloud operations *****************************)
CloudReads == {"read_spreadsheet", "read_document", "read_slides"}
CloudWrites == {"create_spreadsheet", "create_document", "create_slides"}

\* variant of CloudReadFailure: the 404 and 403 branches are swapped
CloudReadFailure_Swapped(exc) ==
    IF exc.type = "HttpError"
    THEN IF exc.status = 403 THEN ReadFailed("not_found", NoErr)
         ELSE IF exc.status = 404 THEN ReadFailed("permission", NoErr)
         ELSE ReadFailed("error_occurred", exc)
    ELSE ReadFailed("unexpected_error", exc)

\* variant of CloudReadFailure: the failed result carries the items fetched
\* before the failure
CloudReadFailure_KeepsContent(exc) ==
    Result("ReadResult", FALSE, "set", "null", "null",
           IF exc.type = "HttpError" THEN "error_occurred"
           ELSE "unexpected_error", exc)

\* the except clauses of read_spreadsheet / read_document / read_slides
CloudReadFailure(exc) ==
    IF exc.type = "HttpError"
    THEN IF exc.status = 404 THEN ReadFailed("not_found", NoErr)
         ELSE IF exc.status = 403 THEN ReadFailed("permission", NoErr)
         ELSE ReadFailed("error_occurred", exc)
    ELSE ReadFailed("unexpected_error", exc)

\* variant of CloudWriteFailure: the failed result still carries the url
CloudWriteFailure_KeepsUrl(exc) ==
    Result("WriteResult", FALSE, "null", "null", "set",
           IF exc.type = "HttpError" /\ exc.status = 403
           THEN "permission" ELSE "error_occurred", exc)

\* the except clauses of create_spreadsheet / create_document / create_slides
CloudWriteFailure(exc) ==
    IF exc.type = "HttpError"
    THEN IF exc.status = 403 THEN WriteFailed("permission", NoErr)
         ELSE WriteFailed("error_occurred", exc)
    ELSE WriteFailed("unexpected_error", exc)

\* remote calls of read_spreadsheet on a spreadsheet of n sheets
ReadSpreadsheetPlan(n) ==
    <<"spreadsheets.get">> \o [i \in 1..n |-> "values.get"]

\* variant of FirstSheetPlan: Sheet1 is renamed before its values are written
FirstSheetPlan_RenameFirst(sh) ==
    IF sh.hasData
    THEN (IF sh.renamed THEN <<"batchUpdate.rename">> ELSE << >>) \o
         <<"values.update">>
    ELSE << >>

\* remote calls of create_spreadsheet; a sheet is [hasData, renamed]
\* (data non-empty, name other than 'Sheet1')
FirstSheetPlan(sh) ==
    IF sh.hasData
    THEN <<"values.update">> \o
         (IF sh.renamed THEN <<"batchUpdate.rename">> ELSE << >>)
    ELSE << >>
RECURSIVE MoreSheetsPlan(_)
MoreSheetsPlan(sheets) ==
    IF sheets = << >> THEN << >>
    ELSE <<"batchUpdate.addSheet">> \o
         (IF Head(sheets).hasData THEN <<"values.update">> ELSE << >>) \o
         MoreSheetsPlan(Tail(sheets))
CreateSpreadsheetPlan(sheets) ==
    <<"spreadsheets.create">> \o
    (IF sheets = << >> THEN << >>
     ELSE FirstSheetPlan(Head(sheets)) \o MoreSheetsPlan(Tail(sheets)))

\* remote calls of create_document: the batch is sent when it has requests
CreateDocumentPlan(hasRequests) ==
    <<"documents.create">> \o
    (IF hasRequests THEN <<"documents.batchUpdate">> ELSE << >>)

\* remote calls of create_slides: the deck is fetched when slides are given
CreateSlidesPlan(hasSlides, hasRequests) ==
    <<"presentations.create">> \o
    (IF hasSlides
     THEN <<"presentations.get">> \o
          (IF hasRequests THEN <<"presentations.batchUpdate">> ELSE << >>)
     ELSE << >>)

Sheets == UNION {[1..n -> [hasData : BOOLEAN, renamed : BOOLEAN]] : n \in 0..MaxItems}

\* One input of a cloud operation: the shape of data at the top ("list":
\* the key holds a list; "nokey", "notlist", "notdict" as for the local
\* writers; "id" for a read), its remote calls in order, and crashAfter = k
\* when the code between call k and call k+1 raises, else 0.
CloudInput(top, plan, crashAfter) ==
    [top |-> top, plan |-> plan, crashAfter |-> crashAfter]

\* Inputs the create operations do not expect.  Nothing looks at data before
\* the create call.  After it, data.get(key, []) raises when data is not a
\* mapping; without the key it gives [] and nothing more is sent; a value
\* that is not a list is skipped when it is falsy and len() accepts it ({},
\* ""), and raises otherwise (x[0].get on a str, len(None) in the log line).
UnexpectedCloudInputs(create) ==
    {CloudInput("notdict", <<create>>, 1),
     CloudInput("list", <<create>>, 1),     \* a list entry that is no mapping
     CloudInput("nokey", <<create>>, 0),
     CloudInput("notlist", <<create>>, 0),
     CloudInput("notlist", <<create>>, 1)}

CloudInputs(name) ==
    CASE name = "read_spreadsheet" ->
            {CloudInput("id", ReadSpreadsheetPlan(n), 0) : n \in 0..MaxItems}
      [] name = "read_document" -> {CloudInput("id", <<"documents.get">>, 0)}
      [] name = "read_slides" -> {CloudInput("id", <<"presentations.get">>, 0)}
      [] name = "create_spreadsheet" ->
            {CloudInput("list", CreateSpreadsheetPlan(s), 0) : s \in Sheets}
            \cup UnexpectedCloudInputs("spreadsheets.create")
      [] name = "create_document" ->
            {CloudInput("list", CreateDocumentPlan(b), 0) : b \in BOOLEAN}
            \cup UnexpectedCloudInputs("documents.create")
      [] name = "create_slides" ->
            {CloudInput("list", CreateSlidesPlan(a, b), 0) : a, b \in BOOLEAN}
            \cup UnexpectedCloudInputs("presentations.create")

NoOp == [name |-> "none", kind |-> "none", plan |-> << >>, crashAfter |-> 0,
         idx |-> 0, phase |-> "idle",
         file |-> "none", data |-> [top |-> "none", items |-> << >>],
         env |-> "none", args |-> "none"]

SideOf(name) == IF name \in CloudReads THEN "reader" ELSE "writer"

(***************************** local readers ********************************)
\* what is found at file_path
Files == {"missing", "oversize", "unopenable", "unreadable", "valid"}

FileNotFoundErr == Err("FileNotFoundError", 0)
CorruptedFileErr == Err("CorruptedFileError", 0)
ValidationErr == Err("ValidationError", 0)
PlainException == Err("Exception", 0)

\* a plain dict ({"slides": [...]}, {"sheets": [...]}) has no success field
DictResult == Result("dict", FALSE, "set", "null", "null", "null", NoErr)
\* the output path, returned as a str
PathResult == Result("str", FALSE, "null", "set", "null", "null", NoErr)

\* WordReader.read_file
WordReadFile(file) ==
    CASE file = "missing" -> ReadFailed("file_not_found", NoErr)
      [] file = "oversize" -> ReadFailed("size_exceeded", NoErr)
      [] file = "unopenable" -> ReadFailed("corrupted", NoErr)
      [] file = "unreadable" -> ReadFailed("read_error", PlainException)
      [] OTHER -> ReadOk

\* ExcelReader.read_file
ExcelReadFile(file) ==
    CASE file = "missing" -> Raised(FileNotFoundErr)
      [] file = "oversize" -> Raised(CorruptedFileErr)
      [] file = "unopenable" -> Raised(CorruptedFileErr)
      [] file = "unreadable" -> Raised(CorruptedFileErr)
      [] OTHER -> DictResult

\* PowerPointReader.read_file
PowerPointReadFile(file) ==
    CASE file = "missing" -> Raised(FileNotFoundErr)
      [] file = "oversize" -> Raised(CorruptedFileErr)
      [] file = "unopenable" -> Raised(CorruptedFileErr)
      [] file = "unreadable" -> Raised(CorruptedFileErr)
      [] OTHER -> DictResult

LocalReaders == {"PowerPointReader", "WordReader", "ExcelReader"}

ReadFile(reader, file) ==
    CASE reader = "WordReader" -> WordReadFile(file)
      [] reader = "ExcelReader" -> ExcelReadFile(file)
      [] OTHER -> PowerPointReadFile(file)

(***************************** local writers ********************************)
\* Input data, as far as validation looks at it: top is "notdict", "nokey"
\* (no slides / sections / sheets key), "notlist" or "list"; items are the
\* entries of the list.
SlideItems == {"notdict", "title", "content", "bullet", "invalid", "nolayout"}
SectionItems == {"notdict", "nolevel", "level_ok", "level_bad"}
SheetItems == {"notdict", "noname", "nodata", "data_notlist", "ok"}

Data(top, items) == [top |-> top, items |-> items]
DataOver(itemSet) ==
    {Data(t, << >>) : t \in {"notdict", "nokey", "notlist"}}
    \cup {Data("list", its) : its \in UNION {[1..n -> itemSet] : n \in 0..MaxItems}}

\* index of the first entry of items that is in bad, 0 when there is none
FirstBad(items, bad) ==
    IF \E i \in 1..Len(items) : items[i] \in bad
    THEN CHOOSE i \in 1..Len(items) :
            /\ items[i] \in bad
            /\ \A j \in 1..(i - 1) : items[j] \notin bad
    ELSE 0

\* the checks all three _validate_data share: the message of the
\* ValidationError raised, or "ok"
ValidateTop(data) ==
    CASE data.top = "notdict" -> "data_not_dict"
      [] data.top = "nokey" -> "key_missing"
      [] data.top = "notlist" -> "not_a_list"
      [] OTHER -> "ok"

\* PowerPointWriter._validate_data
PowerPointValidateData(data) ==
    IF ValidateTop(data) # "ok" THEN ValidateTop(data)
    ELSE LET i == FirstBad(data.items, {"notdict", "invalid"})
         IN  IF i = 0 THEN "ok"
             ELSE IF data.items[i] = "notdict" THEN "slide_not_dict"
             ELSE "layout_invalid"

\* WordWriter._validate_data
WordValidateData(data) ==
    IF ValidateTop(data) # "ok" THEN ValidateTop(data)
    ELSE LET i == FirstBad(data.items, {"notdict", "level_bad"})
         IN  IF i = 0 THEN "ok"
             ELSE IF data.items[i] = "notdict" THEN "section_not_dict"
             ELSE "level_invalid"

\* ExcelWriter._validate_data
ExcelValidateData(data) ==
    IF ValidateTop(data) # "ok" THEN ValidateTop(data)
    ELSE IF data.items = << >> THEN "no_sheets"
    ELSE LET i == FirstBad(data.items, SheetItems \ {"ok"})
         IN  IF i = 0 THEN "ok"
             ELSE CASE data.items[i] = "notdict" -> "sheet_not_dict"
                    [] data.items[i] = "noname" -> "name_missing"
                    [] data.items[i] = "nodata" -> "data_missing"
                    [] OTHER -> "data_not_list"

\* what building and saving the native object runs into
SaveEnvs == {"ok", "build_error", "mkdir_fails", "permission_denied",
             "os_error", "os_error_midway"}

\* the file at output_path after the try block of a writer, from "absent"
FileAfterSave(valid, env) ==
    IF ~valid THEN "absent"
    ELSE CASE env = "ok" -> "complete"
           [] env = "os_error_midway" -> "partial"
           [] OTHER -> "absent"

\* PowerPointWriter.create_presentation
PowerPointCreatePresentation(data, env) ==
    IF PowerPointValidateData(data) # "ok" THEN Raised(ValidationErr)
    ELSE IF env = "ok" THEN PathResult
    ELSE Raised(PlainException)

\* WordWriter.create_document
WordCreateDocument(data, env) ==
    IF WordValidateData(data) # "ok"
    THEN WriteFailed(WordValidateData(data), NoErr)
    ELSE IF env = "ok" THEN WriteOkLocal
    ELSE WriteFailed("write_error", PlainException)

\* ExcelWriter.create_workbook
ExcelCreateWorkbook(data, env) ==
    IF ExcelValidateData(data) # "ok"
    THEN WriteFailed(ExcelValidateData(data), NoErr)
    ELSE IF env = "ok" THEN WriteOkLocal
    ELSE WriteFailed("write_error", PlainException)

LocalWriters == {"PowerPointWriter", "WordWriter", "ExcelWriter"}

WriterInputs(writer) ==
    CASE writer = "PowerPointWriter" -> DataOver(SlideItems)
      [] writer = "WordWriter" -> DataOver(SectionItems)
      [] OTHER -> DataOver(SheetItems)

ValidData(writer, data) ==
    CASE writer = "PowerPointWriter" -> PowerPointValidateData(data) = "ok"
      [] writer = "WordWriter" -> WordValidateData(data) = "ok"
      [] OTHER -> ExcelValidateData(data) = "ok"

WriteFile(writer, data, env) ==
    CASE writer = "PowerPointWriter" -> PowerPointCreatePresentation(data, env)
      [] writer = "WordWriter" -> WordCreateDocument(data, env)
      [] OTHER -> ExcelCreateWorkbook(data, env)

(***************************** tool handlers ********************************)
\* The remote document of a create operation: whether the create call was
\* ever sent, and how far the document got ("none", "created": it exists
\* with the content written so far, "populated": every call was made).
Remote(issued, object) ==
    [issued |-> issued, object |-> object,
     calls |-> << >>]   \* the remote calls sent so far, each named once
NoRemote == Remote(FALSE, "none")

\* the exception classes derived from DocumentMCPError
DocumentMCPErrors == {"DocumentMCPError", "FileNotFoundError",
                      "CorruptedFileError", "AuthenticationError",
                      "PermissionError", "APIError", "ValidationError",
                      "ConfigurationError"}
TypeErr == Err("TypeError", 0)

\* A handler's return value: the keys of the mapping returned, isError, and
\* what the JSON text inside content[0] holds: its keys, its success
\* member ("true", "false", "absent") and, for an error, the error
\* object's type and keys.
Response(keys, isError, text) == [keys |-> keys, isError |-> isError, text |-> text]
Text(keys, success, errtype, errkeys) ==
    [keys |-> keys, success |-> success, errtype |-> errtype, errkeys |-> errkeys]
NoResponse == Response({}, FALSE, Text({}, "absent", "none", {}))

\* ToolHandlers._error_response
ErrorResponse(errtype) ==
    Response({"content", "isError"}, TRUE,
             Text({"success", "error"}, "false", errtype,
                  {"type", "message", "details"}))

\* ToolHandlers._success_response of a JSON-serializable value with these
\* keys and this success member
SuccessResponse(keys, success) ==
    Response({"content"}, FALSE, Text(keys, success, "none", {}))

\* the except clauses every handler ends with
HandlerExcept(exc) ==
    IF exc.type \in DocumentMCPErrors THEN ErrorResponse(exc.type)
    ELSE ErrorResponse("DocumentMCPError")

\* a read handler after read_file / read_spreadsheet / ... came back:
\* json.dumps takes a dict; a ReadResult (a dataclass) makes it raise
\* TypeError inside the try block
ReadHandlerTail(outcome, keys) ==
    CASE outcome.ret = "raise" -> HandlerExcept(outcome.detail)
      [] outcome.ret = "ReadResult" -> HandlerExcept(TypeErr)
      [] OTHER -> SuccessResponse(keys, "absent")

\* a write handler after the writer came back: the returned value is put
\* into {"success": True, <target>: value, "message": ...} and serialized
WriteHandlerTail(outcome, target) ==
    CASE outcome.ret = "raise" -> HandlerExcept(outcome.detail)
      [] outcome.ret = "WriteResult" -> HandlerExcept(TypeErr)
      [] OTHER -> SuccessResponse({"success", target, "message"}, "true")

\* top-level keys of the dict a local reader returns
ReaderDictKeys(reader) ==
    IF reader = "ExcelReader" THEN {"sheets"} ELSE {"slides"}

\* the handler of a cloud operation after the operation came back
CloudHandlerTail(name, outcome) ==
    IF name \in CloudReads THEN ReadHandlerTail(outcome, {})
    ELSE WriteHandlerTail(outcome, "url")

\* The arguments a read handler is called with: not a mapping (None), no
\* file_path key, a value that is no string, a blank string, a path that
\* does not exist, a path that is a directory, or the path of a file.
ReadArgShapes == {"not_mapping", "no_key", "not_string", "blank",
                  "no_such_path", "not_a_file", "file"}
\* what exists at a path that passed _validate_file_path
ExistingFiles == Files \ {"missing"}

\* ToolHandlers._validate_file_path: the exception raised, NoErr when none
ValidateFilePath(shape) ==
    CASE shape = "not_mapping" -> TypeErr
      [] shape = "no_such_path" -> FileNotFoundErr
      [] shape = "file" -> NoErr
      [] OTHER -> ValidationErr

\* The arguments a write handler is called with.
WriteArgShapes == {"not_mapping", "no_data", "no_output_path", "given"}

\* the parameter checks at the head of handle_write_*
ValidateWriteArgs(shape) ==
    CASE shape = "not_mapping" -> TypeErr
      [] shape = "given" -> NoErr
      [] OTHER -> ValidationErr

\* One run of a helper: the function, where it stands ("start", "loop",
\* "written", "done"), its arguments, its local variables, what it returned.
Calc(fn, pc, input, local, out) ==
    [fn |-> fn, pc |-> pc, input |-> input, local |-> local, out |-> out]
None == [none |-> TRUE]
\* no helper run is looked at
NoCalc == Calc("none", "done", None, None, None)

(***************************** actions **************************************)
Init ==
    /\ eng = EngIdle
    /\ twin = EngIdle
    /\ observed = << >>
    /\ op = NoOp
    /\ result = NoResult
    /\ fs = "absent"
    /\ remote = NoRemote
    /\ response = NoResponse
    /\ calc = NoCalc

\* a cloud read or create operation is called on a reader / writer built
\* with max_retries; it reaches its first _execute_with_retry
StartCloudOp ==
    /\ op.phase = "idle"
    /\ \E name \in CloudReads \cup CloudWrites :
       \E inp \in CloudInputs(name) :
       \E max_retries \in 0..MaxRetriesBound :
       \E ftb \in (IF SideOf(name) = "reader" THEN BOOLEAN ELSE {FALSE}) :
          /\ op' = [NoOp EXCEPT !.name = name,
                                !.kind = IF name \in CloudReads
                                         THEN "cloud_read" ELSE "cloud_write",
                                !.plan = inp.plan,
                                !.crashAfter = inp.crashAfter,
                                !.data = Data(inp.top, << >>),
                                !.idx = 1, !.phase = "running"]
          /\ eng' = EngStart(SideOf(name), max_retries, ftb)
          /\ twin' = EngStart(SideOf(name), max_retries, ftb)
    /\ observed' = << >>
    /\ UNCHANGED <<result, fs, remote, response, calc>>

\* one iteration of the retry loop starts: the wrapped function is invoked
Submit ==
    /\ eng.pc = "loop" /\ eng.attempt < eng.max_retries
    /\ \E c \in Behaviours(eng.side) :
          /\ eng' = EngSubmit(eng, c)
          /\ twin' = EngSubmit(twin, TwinSubst(eng.side, c))
          /\ observed' = Append(observed, ClassOf(eng.side, c))
    /\ remote' = [remote EXCEPT
                      !.issued = @ \/ (op.kind = "cloud_write" /\ op.idx = 1),
                      !.calls = IF eng.invocations = 0
                                THEN Append(@, op.plan[op.idx]) ELSE @]
    /\ UNCHANGED <<op, result, fs, response, calc>>

\* the wrapped function returns or raises and the engine handles it
Return ==
    /\ eng.pc = "waiting"
    /\ EngReturn(eng) # eng
    /\ eng' = EngReturn(eng)
    /\ twin' = IF twin.call = eng.call THEN EngReturn(twin)
               ELSE TwinFinishAttempt(twin)
    /\ UNCHANGED <<observed, op, result, fs, remote, response, calc>>

\* api_timeout passes while the wrapped function is still running
Timeout ==
    /\ eng.pc = "waiting"
    /\ EngTimeout(eng) # eng
    /\ eng' = EngTimeout(eng)
    /\ twin' = EngTimeout(twin)
    /\ UNCHANGED <<observed, op, result, fs, remote, response, calc>>

\* the reader's executor shutdown returns: the late worker has ended
Join ==
    /\ eng.pc = "joining"
    /\ EngJoin(eng) # eng
    /\ eng' = EngJoin(eng)
    /\ twin' = EngJoin(twin)
    /\ UNCHANGED <<observed, op, result, fs, remote, response, calc>>

\* the loop is used up: APIError
Exhausted ==
    /\ eng.pc = "loop" /\ eng.attempt >= eng.max_retries
    /\ eng' = EngExhausted(eng)
    /\ twin' = EngExhausted(twin)
    /\ UNCHANGED <<observed, op, result, fs, remote, response, calc>>

\* _execute_with_retry returned: the operation goes on to its next remote
\* call, or fails on its own code, or returns its successful result
OpAdvance ==
    /\ op.phase = "running" /\ op.kind \in {"cloud_read", "cloud_write"}
    /\ eng.pc = "done" /\ eng.final.kind = "return"
    /\ IF op.crashAfter = op.idx
       THEN /\ result' = CloudWriteFailure(Err("AttributeError", 0))
            /\ response' = CloudHandlerTail(op.name, result')
            /\ remote' = [remote EXCEPT !.object = "created"]
            /\ op' = [op EXCEPT !.phase = "finished"]
            /\ UNCHANGED <<eng, twin, observed>>
       ELSE IF op.idx < Len(op.plan)
       THEN /\ op' = [op EXCEPT !.idx = @ + 1]
            /\ eng' = EngStart(eng.side, eng.max_retries, eng.ftb)
            /\ twin' = EngStart(eng.side, eng.max_retries, eng.ftb)
            /\ observed' = << >>
            /\ remote' = IF op.kind = "cloud_write"
                         THEN [remote EXCEPT !.object = "created"] ELSE remote
            /\ UNCHANGED <<result, response>>
       ELSE /\ result' = IF op.kind = "cloud_read" THEN ReadOk ELSE WriteOkCloud
            /\ response' = CloudHandlerTail(op.name, result')
            /\ remote' = IF op.kind = "cloud_write"
                         THEN [remote EXCEPT !.object = "populated"] ELSE remote
            /\ op' = [op EXCEPT !.phase = "finished"]
            /\ UNCHANGED <<eng, twin, observed>>
    /\ UNCHANGED <<fs, calc>>

\* _execute_with_retry raised: the operation's except clauses turn the
\* exception into a failed result
OpFail ==
    /\ op.phase = "running" /\ op.kind \in {"cloud_read", "cloud_write"}
    /\ eng.pc = "done" /\ eng.final.kind = "raise"
    /\ result' = IF op.kind = "cloud_read"
                 THEN CloudReadFailure(eng.final.exc)
                 ELSE CloudWriteFailure(eng.final.exc)
    /\ response' = CloudHandlerTail(op.name, result')
    /\ op' = [op EXCEPT !.phase = "finished"]
    /\ UNCHANGED <<eng, twin, observed, fs, remote, calc>>

\* read_file of a local reader
LocalRead ==
    /\ op.phase = "idle"
    /\ \E reader \in LocalReaders, file \in Files :
          /\ op' = [NoOp EXCEPT !.name = reader, !.kind = "local_read",
                                !.file = file, !.phase = "finished"]
          /\ result' = ReadFile(reader, file)
    /\ UNCHANGED <<eng, twin, observed, fs, remote, response, calc>>

\* create_presentation / create_document / create_workbook of a local writer
LocalWrite ==
    /\ op.phase = "idle"
    /\ \E writer \in LocalWriters :
       \E data \in WriterInputs(writer), env \in SaveEnvs :
          /\ op' = [NoOp EXCEPT !.name = writer, !.kind = "local_write",
                                !.data = data, !.env = env,
                                !.phase = "finished"]
          /\ result' = WriteFile(writer, data, env)
          /\ fs' = FileAfterSave(ValidData(writer, data), env)
    /\ UNCHANGED <<eng, twin, observed, remote, response, calc>>

\* handle_read_powerpoint / handle_read_word / handle_read_excel: the
\* arguments are checked, the reader is called, its value is serialized
HandleRead ==
    /\ op.phase = "idle"
    /\ \E reader \in LocalReaders, shape \in ReadArgShapes :
       \E file \in (IF shape = "file" THEN ExistingFiles ELSE {"none"}) :
          /\ op' = [NoOp EXCEPT !.name = reader, !.kind = "handle_read",
                                !.args = shape, !.file = file,
                                !.phase = "finished"]
          /\ IF ValidateFilePath(shape) # NoErr
             THEN /\ result' = NoResult
                  /\ response' = HandlerExcept(ValidateFilePath(shape))
             ELSE /\ result' = ReadFile(reader, file)
                  /\ response' = ReadHandlerTail(result', ReaderDictKeys(reader))
    /\ UNCHANGED <<eng, twin, observed, fs, remote, calc>>

\* handle_write_powerpoint / handle_write_word / handle_write_excel: the
\* parameters are checked, the writer is called, its value is serialized
HandleWrite ==
    /\ op.phase = "idle"
    /\ \E writer \in LocalWriters, shape \in WriteArgShapes :
          IF ValidateWriteArgs(shape) # NoErr
          THEN /\ op' = [NoOp EXCEPT !.name = writer, !.kind = "handle_write",
                                     !.args = shape, !.phase = "finished"]
               /\ result' = NoResult
               /\ response' = HandlerExcept(ValidateWriteArgs(shape))
               /\ UNCHANGED fs
          ELSE \E data \in WriterInputs(writer), env \in SaveEnvs :
               /\ op' = [NoOp EXCEPT !.name = writer, !.kind = "handle_write",
                                     !.args = shape, !.data = data,
                                     !.env = env, !.phase = "finished"]
               /\ result' = WriteFile(writer, data, env)
               /\ fs' = FileAfterSave(ValidData(writer, data), env)
               /\ response' = WriteHandlerTail(result', "output_path")
    /\ UNCHANGED <<eng, twin, observed, remote, calc>>

Next ==
    \/ StartCloudOp
    \/ Submit
    \/ Return
    \/ Timeout
    \/ Join
    \/ Exhausted
    \/ OpAdvance
    \/ OpFail
    \/ LocalRead
    \/ LocalWrite
    \/ HandleRead
    \/ HandleWrite

Spec == Init /\ [][Next]_vars

(***************************** local formats: readers ***********************)
\* sequences of distinct sheet / slide ids, in the order of the file
Decks ==
    UNION {{d \in [1..n -> 1..MaxDeck] :
               \A i, j \in 1..n : i # j => d[i] # d[j]} : n \in 0..MaxDeck}

NoWarning == [present |-> FALSE, total |-> 0, limit |-> 0]
Warning(total, limit) == [present |-> TRUE, total |-> total, limit |-> limit]

\* ExcelReader.read_file on a workbook that opens: the dict returned, with
\* its keys; "success" and metadata are members of a ReadResult, which this
\* reader does not build
ExcelReadSheets(sheetnames, max_sheets) ==
    LET sheet_count == Len(sheetnames)
        sheets_to_process ==
            IF sheet_count > max_sheets
            THEN SubSeq(sheetnames, 1, max_sheets) ELSE sheetnames
    IN  [ret |-> "dict",
         keys |-> {"sheets"} \cup
                  (IF sheet_count > max_sheets THEN {"warning"} ELSE {}),
         sheets |-> sheets_to_process,
         warning |-> IF sheet_count > max_sheets
                     THEN Warning(sheet_count, max_sheets) ELSE NoWarning]

Min(a, b) == IF a < b THEN a ELSE b

\* variant of PowerPointReadSlides: the warning is also attached when the
\* deck has exactly max_slides slides
PowerPointReadSlides_WarnAtLimit(slides, max_slides) ==
    LET slide_count == Len(slides)
        slides_to_process == Min(slide_count, max_slides)
    IN  [ret |-> "dict",
         keys |-> {"slides"} \cup
                  (IF slide_count >= max_slides THEN {"warning"} ELSE {}),
         slides |-> [idx \in 1..slides_to_process |->
                        [slide_number |-> idx, slide |-> slides[idx]]],
         warning |-> IF slide_count >= max_slides
                     THEN Warning(slide_count, max_slides) ELSE NoWarning]

\* PowerPointReader.read_file on a deck that opens
PowerPointReadSlides(slides, max_slides) ==
    LET slide_count == Len(slides)
        slides_to_process == Min(slide_count, max_slides)
    IN  [ret |-> "dict",
         keys |-> {"slides"} \cup
                  (IF slide_count > max_slides THEN {"warning"} ELSE {}),
         slides |-> [idx \in 1..slides_to_process |->
                        [slide_number |-> idx, slide |-> slides[idx]]],
         warning |-> IF slide_count > max_slides
                     THEN Warning(slide_count, max_slides) ELSE NoWarning]

(***************************** WordReader._get_heading_level ****************)
\* A style name is a sequence of symbols: "Heading" stands for these seven
\* letters, "x" for any other letter, " " for a blank.
Digits == {"0", "1", "3", "9"}
StyleChars == {"Heading", "x", " ", "-"} \cup Digits
StyleNames == UNION {[1..n -> StyleChars] : n \in 0..MaxNameLen}

DigitValue(d) ==
    CASE d = "0" -> 0 [] d = "1" -> 1 [] d = "3" -> 3 [] OTHER -> 9

\* str.split(): the maximal runs of non-blank symbols
RECURSIVE Split(_)
Split(name) ==
    IF name = << >> THEN << >>
    ELSE IF Head(name) = " " THEN Split(Tail(name))
    ELSE LET rest == Split(Tail(name))
         IN  IF Len(name) > 1 /\ name[2] # " "
             THEN <<(<<Head(name)>> \o Head(rest))>> \o Tail(rest)
             ELSE <<(<<Head(name)>>)>> \o rest

\* int(token) accepts an optional sign followed by digits
IsIntLiteral(token) ==
    LET digits == IF token # << >> /\ Head(token) = "-"
                  THEN Tail(token) ELSE token
    IN  /\ digits # << >>
        /\ \A i \in 1..Len(digits) : digits[i] \in Digits

RECURSIVE DecimalValue(_)
DecimalValue(digits) ==
    IF digits = << >> THEN 0
    ELSE 10 * DecimalValue(SubSeq(digits, 1, Len(digits) - 1))
         + DigitValue(digits[Len(digits)])

IntValue(token) ==
    IF Head(token) = "-" THEN 0 - DecimalValue(Tail(token))
    ELSE DecimalValue(token)

\* WordReader._get_heading_level: the value returned; ValueError and
\* IndexError are caught inside
GetHeadingLevel(style_name) ==
    IF style_name # << >> /\ Head(style_name) = "Heading"
    THEN LET words == Split(style_name)
         IN  IF words = << >> THEN 0
             ELSE IF IsIntLiteral(words[Len(words)])
                  THEN IntValue(words[Len(words)])
                  ELSE 0
    ELSE 0

(***************************** ExcelReader helpers **************************)
\* A string of _get_column_letter and of a cell address is the sequence of
\* its character codes.
OrdA == 65
Ord0 == 48

\* variant of ColumnLetterBody: the `col_idx -= 1` is missing
ColumnLetterBody_NoDecrement(l) ==
    [col_idx |-> l.col_idx \div 26,
     result |-> <<(l.col_idx % 26) + OrdA>> \o l.result,
     iterations |-> l.iterations + 1]

\* one pass of the body of `while col_idx > 0`
ColumnLetterBody(l) ==
    [col_idx |-> (l.col_idx - 1) \div 26,
     result |-> <<((l.col_idx - 1) % 26) + OrdA>> \o l.result,
     iterations |-> l.iterations + 1]

\* locals of _get_column_letter at entry
ColumnLetterStart(col_idx) ==
    [col_idx |-> col_idx, result |-> << >>, iterations |-> 0]

RECURSIVE ColumnLetterLoop(_)
ColumnLetterLoop(l) ==
    IF l.col_idx > 0 THEN ColumnLetterLoop(ColumnLetterBody(l)) ELSE l.result

\* ExcelReader._get_column_letter
GetColumnLetter(col_idx) == ColumnLetterLoop(ColumnLetterStart(col_idx))

\* str(n) of a positive integer
RECURSIVE DecimalString(_)
DecimalString(n) ==
    IF n < 10 THEN <<Ord0 + n>>
    ELSE DecimalString(n \div 10) \o <<Ord0 + (n % 10)>>

\* variant of CellAddress: row and column take each other's place
CellAddress_Swapped(col_idx, row_idx) ==
    GetColumnLetter(row_idx) \o DecimalString(col_idx)

\* f"{self._get_column_letter(col_idx)}{row_idx}"
CellAddress(col_idx, row_idx) ==
    GetColumnLetter(col_idx) \o DecimalString(row_idx)

\* A cell: openpyxl's data_type ('f' formula, 'n' number or empty, 's'
\* string) and value (None, or its text as a sequence of characters).
Cell(data_type, value) == [data_type |-> data_type, value |-> value]
Str(t) == [none |-> FALSE, text |-> t]
Cells == {Cell("f", Str(<<"=", "S">>)), Cell("n", Str(<<"7">>)),
          Cell("n", None), Cell("s", Str(<<"=", "S">>))}
\* a sheet: its rows, each a sequence of cells, all of the same length
Grids ==
    {<< >>} \cup
    UNION {[1..r -> [1..c -> Cells]] : r \in 1..MaxRows, c \in 1..MaxCols}

\* str(cell_value) if cell_value is not None else ""
CellText(value) == IF value = None THEN << >> ELSE value.text

\* the entry appended to row_data for one cell
DataEntry(cell) ==
    IF cell.data_type = "f" THEN <<"=">> \o cell.value.text
    ELSE CellText(cell.value)

\* dict assignment d[key] = value
DictSet(d, key, value) ==
    [k \in DOMAIN d \cup {key} |-> IF k = key THEN value ELSE d[k]]

\* sheet_data["formulas"] after the cells of row row_idx up to column n
RECURSIVE FormulasOfRow(_, _, _, _)
FormulasOfRow(formulas, row, row_idx, n) ==
    IF n = 0 THEN formulas
    ELSE LET before == FormulasOfRow(formulas, row, row_idx, n - 1)
         IN  IF row[n].data_type = "f"
             THEN DictSet(before, CellAddress(n, row_idx), row[n].value.text)
             ELSE before

\* sheet_data["formulas"] after rows 1..n
RECURSIVE FormulasOfRows(_, _)
FormulasOfRows(grid, n) ==
    IF n = 0 THEN << >>
    ELSE FormulasOfRow(FormulasOfRows(grid, n - 1), grid[n], n, Len(grid[n]))

\* ExcelReader._extract_sheet_data
ExtractSheetData(grid) ==
    [data |-> [r \in 1..Len(grid) |->
                  [c \in 1..Len(grid[r]) |-> DataEntry(grid[r][c])]],
     formulas |-> FormulasOfRows(grid, Len(grid))]

(***************************** word tables ***********************************)
\* cell values given to the writer: text, text with blanks around it, text
\* with a control character in it, None
TableValues == {Str("a"), Str(" b "), Str("c^A"), None}
TableRows == UNION {[1..c -> TableValues] : c \in 0..MaxCols}
TableData == UNION {[1..r -> TableRows] : r \in 1..MaxRows}

\* _sanitize_text(str(cell_value) if cell_value is not None else "")
SanitizeText(value) ==
    IF value = None THEN ""
    ELSE IF value.text = "c^A" THEN "c" ELSE value.text

\* str.strip()
Strip(text) == IF text = " b " THEN "b" ELSE text

\* variant of CreateTable: every row gets as many cells as its input row
CreateTable_Ragged(data) ==
    [cols |-> Len(data[1]),
     rows |-> [r \in 1..Len(data) |->
                  [c \in 1..Len(data[r]) |-> SanitizeText(data[r][c])]]]

\* WordWriter._create_table for a non-empty list of lists: the table has
\* len(data) rows of len(data[0]) cells, a cell is empty until it is set,
\* values beyond the last column are dropped
CreateTable(data) ==
    [cols |-> Len(data[1]),
     rows |-> [r \in 1..Len(data) |->
                  [c \in 1..Len(data[1]) |->
                      IF c <= Len(data[r]) THEN SanitizeText(data[r][c])
                      ELSE ""]]]

\* WordReader._extract_table
ExtractTable(table) ==
    [rows |-> Len(table.rows),
     columns |-> table.cols,
     data |-> [r \in 1..Len(table.rows) |->
                  [c \in 1..Len(table.rows[r]) |-> Strip(table.rows[r][c])]]]

(***************************** helper runs **********************************)
(***************************** GoogleWorkspaceWriter.create_document *********)
\* Texts are sequences of characters.
Texts == {<< >>, <<"a">>, <<"b", "c">>}

\* The requests create_document puts into its batchUpdate.  A section gives
\* a heading, paragraphs and tables (for a table: whether its data is
\* non-empty); st holds `requests` and `current_index` while the sections
\* are walked.
CreateDocumentRequests(sections) ==
    LET Request(kind, index, endIndex, text) ==
            [kind |-> kind, index |-> index, endIndex |-> endIndex,
             text |-> text]
        State(requests, current_index) ==
            [requests |-> requests, current_index |-> current_index]
        \* `if heading:` insertText, updateParagraphStyle,
        \* current_index += len(heading) + 1
        HeadingRequests(heading, st) ==
            IF heading # << >>
            THEN State(st.requests \o
                       <<Request("insertText", st.current_index, 0,
                                 heading \o <<"\n">>),
                         Request("updateParagraphStyle", st.current_index,
                                 st.current_index + Len(heading) + 1, << >>)>>,
                       st.current_index + Len(heading) + 1)
            ELSE st
        \* `for paragraph in paragraphs: if paragraph:` insertText,
        \* current_index += len(paragraph) + 1
        RECURSIVE ParagraphRequests(_, _)
        ParagraphRequests(paragraphs, st) ==
            IF paragraphs = << >> THEN st
            ELSE LET paragraph == Head(paragraphs)
                 IN  ParagraphRequests(Tail(paragraphs),
                         IF paragraph # << >>
                         THEN State(Append(st.requests,
                                           Request("insertText",
                                                   st.current_index, 0,
                                                   paragraph \o <<"\n">>)),
                                    st.current_index + Len(paragraph) + 1)
                         ELSE st)
        \* `for table in tables: if table_data:` insertTable,
        \* current_index += 3
        RECURSIVE TableRequests(_, _)
        TableRequests(tables, st) ==
            IF tables = << >> THEN st
            ELSE TableRequests(Tail(tables),
                     IF Head(tables)
                     THEN State(Append(st.requests,
                                       Request("insertTable", st.current_index,
                                               0, << >>)),
                                st.current_index + TableBasicSize)
                     ELSE st)
        \* `for section in sections:`
        RECURSIVE SectionRequests(_, _)
        SectionRequests(rest, st) ==
            IF rest = << >> THEN st
            ELSE SectionRequests(Tail(rest),
                     TableRequests(Head(rest).tables,
                         ParagraphRequests(Head(rest).paragraphs,
                             HeadingRequests(Head(rest).heading, st))))
    IN  SectionRequests(sections, State(<< >>, 1)).requests

(***************************** GoogleWorkspaceWriter.create_slides ***********)
\* The requests create_slides puts into its batchUpdate.  An input slide
\* gives a title and a content string; placeholders tells whether the first
\* slide of the created presentation, as presentations.get shows it, has a
\* TITLE / CENTERED_TITLE placeholder and a SUBTITLE placeholder.
CreateSlidesRequests(slides_data, placeholders) ==
    LET Request(kind, objectId, text) ==
            [kind |-> kind, objectId |-> objectId, text |-> text]
        \* the first slide: its title and content go to the placeholders found
        FirstSlideRequests(first_slide) ==
            (IF placeholders.title /\ first_slide.title # << >>
             THEN <<Request("insertText", <<"title_placeholder_id">>,
                            first_slide.title)>>
             ELSE << >>) \o
            (IF placeholders.subtitle /\ first_slide.content # << >>
             THEN <<Request("insertText", <<"subtitle_placeholder_id">>,
                            first_slide.content)>>
             ELSE << >>)
        \* `for slide_data in slides_data[1:]`: one createSlide request each,
        \* named after the number of requests so far
        RECURSIVE MoreSlidesRequests(_, _)
        MoreSlidesRequests(slides, requests) ==
            IF slides = << >> THEN requests
            ELSE MoreSlidesRequests(Tail(slides),
                     Append(requests,
                            Request("createSlide",
                                    <<"slide_", Len(requests)>>, << >>)))
    IN  IF slides_data = << >> THEN << >>
        ELSE MoreSlidesRequests(Tail(slides_data),
                                FirstSlideRequests(Head(slides_data)))

(***************************** PowerPointWriter._create_bullet_slide *********)
\* str.split("\n"): one more piece than there are newlines
RECURSIVE SplitOnNewline(_)
SplitOnNewline(text) ==
    IF text = << >> THEN <<(<< >>)>>
    ELSE LET rest == SplitOnNewline(Tail(text))
         IN  IF Head(text) = "\n" THEN <<(<< >>)>> \o rest
             ELSE <<(<<Head(text)>> \o Head(rest))>> \o Tail(rest)

\* str.strip()
StripLine(line) ==
    LET RECURSIVE LStrip(_)
        LStrip(text) ==
            IF text # << >> /\ Head(text) = " " THEN LStrip(Tail(text))
            ELSE text
        RECURSIVE RStrip(_)
        RStrip(text) ==
            IF text # << >> /\ text[Len(text)] = " "
            THEN RStrip(SubSeq(text, 1, Len(text) - 1)) ELSE text
    IN  RStrip(LStrip(line))

\* _create_bullet_slide with a str content: the paragraphs [text, level] of
\* the body placeholder.  text_frame.clear() leaves one paragraph without
\* text; in `for idx, line in enumerate(lines)` blank lines are skipped, the
\* line of idx 0 goes to paragraphs[0], every other line to add_paragraph().
CreateBulletSlide(content) ==
    LET Paragraph(text, level) == [text |-> text, level |-> level]
        RECURSIVE BulletLines(_, _, _)
        BulletLines(lines, idx, text_frame) ==
            IF idx >= Len(lines) THEN text_frame
            ELSE LET line == StripLine(lines[idx + 1])
                 IN  BulletLines(lines, idx + 1,
                         IF line = << >> THEN text_frame
                         ELSE IF idx = 0
                              THEN [text_frame EXCEPT
                                       ![1] = Paragraph(line, 0)]
                              ELSE Append(text_frame, Paragraph(line, 0)))
    IN  BulletLines(SplitOnNewline(content), 0, <<Paragraph(<< >>, 0)>>)

(***************************** ExcelWriter: sheet titles *********************)
\* What openpyxl does with a title of more than 31 characters depends on its
\* version: it warns and keeps the title, or it raises ValueError.
TitleLibraries == {"warns", "raises"}

\* create_workbook on valid data where the file can be saved: the result and
\* the sheets of the saved workbook.  A sheet name is a sequence of
\* characters; wb is the workbook whose default sheet was removed.
CreateWorkbookSheets(names, library) ==
    LET Workbook(sheetnames, error) ==
            [sheetnames |-> sheetnames, error |-> error]
        \* _create_sheet: ws = wb.create_sheet(title=sheet_name), the name
        \* given as it is
        CreateSheet(wb, sheet_name) ==
            IF Len(sheet_name) > ExcelTitleLimit /\ library = "raises"
            THEN Workbook(wb.sheetnames, Err("ValueError", 0))
            ELSE Workbook(Append(wb.sheetnames, sheet_name), NoErr)
        \* `for sheet_data in sheets_data: self._create_sheet(wb, sheet_data)`;
        \* an exception ends the loop
        RECURSIVE CreateSheets(_, _)
        CreateSheets(rest, wb) ==
            IF rest = << >> \/ wb.error # NoErr THEN wb
            ELSE CreateSheets(Tail(rest), CreateSheet(wb, Head(rest)))
        saved == CreateSheets(names, Workbook(<< >>, NoErr))
    IN  IF saved.error = NoErr
        THEN [success |-> TRUE, saved |-> TRUE, sheetnames |-> saved.sheetnames]
        ELSE [success |-> FALSE, saved |-> FALSE, sheetnames |-> << >>]

(***************************** write, then read back ************************)
\* Numbers of entries given to a writer: a few, and as many as the reader's
\* default limit and one more.
EntryCounts(limit) == (0..MaxItems) \cup {limit, limit + 1}

\* variant of PresentationSlides: the new presentation starts with a slide
PresentationSlides_WithDefaultSlide(slides_data) ==
    <<[entry |-> 0]>> \o
    [i \in 1..Len(slides_data) |-> [entry |-> slides_data[i]]]

\* create_presentation: Presentation() has no slide, _create_slide adds one
\* slide per entry
PresentationSlides(slides_data) ==
    [i \in 1..Len(slides_data) |-> [entry |-> slides_data[i]]]

FormatInputs ==
    {Calc("ExcelReader.read_file", "start",
          [sheetnames |-> d, max_sheets |-> m], None, None) :
        d \in Decks, m \in 0..MaxDeck}
    \cup {Calc("PowerPointReader.read_file", "start",
               [slides |-> d, max_slides |-> m], None, None) :
             d \in Decks, m \in 0..MaxDeck}
    \cup {Calc("_get_heading_level", "start", n, None, None) : n \in StyleNames}
    \cup {Calc("_get_column_letter", "start", n, None, None) : n \in 1..MaxColumn}
    \cup {Calc("_extract_sheet_data", "start", g, None, None) : g \in Grids}
    \cup {Calc("_create_table", "start", t, None, None) : t \in TableData}
    \cup {Calc("GoogleWorkspaceWriter.create_document", "start", d, None, None) :
             d \in UNION {[1..n ->
                              [heading : Texts,
                               paragraphs : UNION {[1..k -> Texts] :
                                                      k \in 0..MaxParagraphs},
                               tables : UNION {[1..k -> BOOLEAN] :
                                                  k \in 0..MaxParagraphs}]] :
                          n \in 0..MaxItems}}
    \cup {Calc("ExcelWriter.create_workbook", "start",
               [names |-> [i \in 1..Len(l) |-> [k \in 1..l[i] |-> "n"]],
                library |-> lib], None, None) :
             \* names of 1, 31 and 32 characters, no name twice
             l \in UNION {{d \in [1..n -> {1, ExcelTitleLimit,
                                            ExcelTitleLimit + 1}] :
                              \A i, j \in 1..n : i # j => d[i] # d[j]} :
                          n \in 1..MaxItems},
             lib \in TitleLibraries}
    \cup {Calc("roundtrip", "start",
               [format |-> "pptx", entries |-> n, library |-> "warns"],
               None, None) : n \in EntryCounts(DefaultMaxSlides)}
    \cup {Calc("roundtrip", "start",
               [format |-> "xlsx", entries |-> n, library |-> lib],
               None, None) :
             n \in EntryCounts(DefaultMaxSheets), lib \in TitleLibraries}
    \cup {Calc("_create_bullet_slide", "start", c, None, None) :
             c \in UNION {[1..n -> {"a", " ", "\n"}] : n \in 0..MaxContentLen}}
    \cup {Calc("GoogleWorkspaceWriter.create_slides", "start",
               [slides |-> d, placeholders |-> ph], None, None) :
             d \in UNION {[1..n -> [title : Texts, content : Texts]] :
                          n \in 0..MaxItems},
             ph \in [title : BOOLEAN, subtitle : BOOLEAN]}

FormatInit ==
    /\ eng = EngIdle
    /\ twin = EngIdle
    /\ observed = << >>
    /\ op = NoOp
    /\ result = NoResult
    /\ fs = "absent"
    /\ remote = NoRemote
    /\ response = NoResponse
    /\ calc \in FormatInputs

Finish(out) == [calc EXCEPT !.pc = "done", !.out = out]
Others == <<eng, twin, observed, op, result, fs, remote, response>>

\* ExcelReader.read_file, from load_workbook to return
ExcelReaderReadFile ==
    /\ calc.fn = "ExcelReader.read_file" /\ calc.pc = "start"
    /\ calc' = Finish(ExcelReadSheets(calc.input.sheetnames, calc.input.max_sheets))
    /\ UNCHANGED Others

\* PowerPointReader.read_file, from Presentation(file_path) to return
PowerPointReaderReadFile ==
    /\ calc.fn = "PowerPointReader.read_file" /\ calc.pc = "start"
    /\ calc' = Finish(PowerPointReadSlides(calc.input.slides, calc.input.max_slides))
    /\ UNCHANGED Others

\* WordReader._get_heading_level
WordReaderGetHeadingLevel ==
    /\ calc.fn = "_get_heading_level" /\ calc.pc = "start"
    /\ calc' = Finish([kind |-> "return", level |-> GetHeadingLevel(calc.input)])
    /\ UNCHANGED Others

\* ExcelReader._get_column_letter is entered
GetColumnLetterEnter ==
    /\ calc.fn = "_get_column_letter" /\ calc.pc = "start"
    /\ calc' = [calc EXCEPT !.pc = "loop", !.local = ColumnLetterStart(calc.input)]
    /\ UNCHANGED Others

\* the loop test of _get_column_letter: one more pass, or `return result`
GetColumnLetterStep ==
    /\ calc.fn = "_get_column_letter" /\ calc.pc = "loop"
    /\ calc' = IF calc.local.col_idx > 0
               THEN [calc EXCEPT !.local = ColumnLetterBody(calc.local)]
               ELSE Finish(calc.local.result)
    /\ UNCHANGED Others

\* ExcelReader._extract_sheet_data
ExcelReaderExtractSheetData ==
    /\ calc.fn = "_extract_sheet_data" /\ calc.pc = "start"
    /\ calc' = Finish(ExtractSheetData(calc.input))
    /\ UNCHANGED Others

\* WordWriter._create_table; the document is then saved
WordWriterCreateTable ==
    /\ calc.fn = "_create_table" /\ calc.pc = "start"
    /\ calc' = [calc EXCEPT !.pc = "written", !.local = CreateTable(calc.input)]
    /\ UNCHANGED Others

\* WordReader._extract_table on the table of the saved document
WordReaderExtractTable ==
    /\ calc.fn = "_create_table" /\ calc.pc = "written"
    /\ calc' = Finish(ExtractTable(calc.local))
    /\ UNCHANGED Others

\* GoogleWorkspaceWriter.create_document, from `sections = data.get(...)` to
\* the batchUpdate body
GoogleWriterCreateDocument ==
    /\ calc.fn = "GoogleWorkspaceWriter.create_document" /\ calc.pc = "start"
    /\ calc' = Finish(CreateDocumentRequests(calc.input))
    /\ UNCHANGED Others

\* GoogleWorkspaceWriter.create_slides, from `slides_data = data.get(...)`
\* to the batchUpdate body
GoogleWriterCreateSlides ==
    /\ calc.fn = "GoogleWorkspaceWriter.create_slides" /\ calc.pc = "start"
    /\ calc' = Finish(CreateSlidesRequests(calc.input.slides,
                                          calc.input.placeholders))
    /\ UNCHANGED Others

\* PowerPointWriter._create_bullet_slide on a layout with a body placeholder
PowerPointWriterCreateBulletSlide ==
    /\ calc.fn = "_create_bullet_slide" /\ calc.pc = "start"
    /\ calc' = Finish(CreateBulletSlide(calc.input))
    /\ UNCHANGED Others

\* ExcelWriter.create_workbook: the sheets are created and the file is saved
ExcelWriterCreateWorkbook ==
    /\ calc.fn = "ExcelWriter.create_workbook" /\ calc.pc = "start"
    /\ calc' = Finish(CreateWorkbookSheets(calc.input.names,
                                          calc.input.library))
    /\ UNCHANGED Others

\* create_presentation / create_workbook on n entries, told apart by their
\* position (ExcelWriter._validate_data rejects an empty list of sheets)
WriterCreateFile ==
    /\ calc.fn = "roundtrip" /\ calc.pc = "start"
    /\ LET n == calc.input.entries
           wb == CreateWorkbookSheets([i \in 1..n |-> <<i>>],
                                      calc.input.library)
           file == IF calc.input.format = "pptx"
                   THEN [saved |-> TRUE,
                         items |-> PresentationSlides([i \in 1..n |-> i])]
                   ELSE IF n = 0 THEN [saved |-> FALSE, items |-> << >>]
                   ELSE [saved |-> wb.saved, items |-> wb.sheetnames]
       IN  calc' = IF file.saved
                   THEN [calc EXCEPT !.pc = "written", !.local = file]
                   ELSE Finish([generated |-> FALSE, items |-> << >>,
                                warning |-> NoWarning])
    /\ UNCHANGED Others

\* read_file of the reader of the same format, built with its default
\* limit, on the saved file
ReaderReadFileBack ==
    /\ calc.fn = "roundtrip" /\ calc.pc = "written"
    /\ LET pptx == PowerPointReadSlides(calc.local.items, DefaultMaxSlides)
           xlsx == ExcelReadSheets(calc.local.items, DefaultMaxSheets)
       IN  calc' = IF calc.input.format = "pptx"
                   THEN Finish([generated |-> TRUE, items |-> pptx.slides,
                                warning |-> pptx.warning])
                   ELSE Finish([generated |-> TRUE, items |-> xlsx.sheets,
                                warning |-> xlsx.warning])
    /\ UNCHANGED Others

FormatNext ==
    \/ ExcelReaderReadFile
    \/ PowerPointReaderReadFile
    \/ WordReaderGetHeadingLevel
    \/ GetColumnLetterEnter
    \/ GetColumnLetterStep
    \/ ExcelReaderExtractSheetData
    \/ WordWriterCreateTable
    \/ WordReaderExtractTable
    \/ GoogleWriterCreateDocument
    \/ GoogleWriterCreateSlides
    \/ PowerPointWriterCreateBulletSlide
    \/ ExcelWriterCreateWorkbook
    \/ WriterCreateFile
    \/ ReaderReadFileBack

FormatSpec == FormatInit /\ [][FormatNext]_vars

(***************************** properties ***********************************)
Last(seq) == seq[Len(seq)]
SleepSecs(e) == [i \in 1..Len(e.sleeps) |-> e.sleeps[i].secs]
AllRetryable(obs) == \A i \in 1..Len(obs) : obs[i] \in RetryableClasses

\* the error the latest attempt of eng failed with, as the engine can see it:
\* a reader attempt that outlives api_timeout fails with a timeout
UnderlyingError(e) ==
    IF e.side = "reader" /\ e.call.timing \in {"late", "hang"}
    THEN EngineTimeoutErr ELSE e.call.res.err

\* exception type and status, leaving the message text aside
ErrFamily(err) ==
    IF err \in {EngineTimeoutErr, FuncTimeoutErr} THEN "TimeoutError"
    ELSE IF err.type = "HttpError" THEN "HttpError" ELSE err.type
SameError(a, b) == ErrFamily(a) = ErrFamily(b) /\ a.status = b.status

C2_TerminalStatusReraised ==
    \A i \in 1..Len(observed) :
        observed[i] = "terminal_http" =>
            /\ i = Len(observed)
            /\ eng.invocations = i
            /\ \A k \in 1..Len(eng.sleeps) : eng.sleeps[k].after < i - 1
            /\ eng.pc \in {"waiting", "done"}
            /\ eng.pc = "done" =>
                  /\ eng.final.kind = "raise"
                  /\ eng.final.exc = eng.call.res.err
                  /\ eng.final.exc.type = "HttpError"

C2_Witness ==
    /\ eng.pc = "done" /\ observed = <<"terminal_http">>
    /\ eng.final.exc = HttpErr(404) /\ eng.invocations = 1
    /\ eng.max_retries = DefaultMaxRetries

\* C3: when attempts 1..k-1 fail retryably and attempt k succeeds
\* (k <= max_retries), the engine returns the result of attempt k, has
\* invoked the function exactly k times, and never invokes it again.
C3_SuccessAfterRetries ==
    \A k \in 1..Len(observed) :
        (observed[k] = "ok" /\ AllRetryable(SubSeq(observed, 1, k - 1))) =>
            /\ k = Len(observed)
            /\ k <= eng.max_retries
            /\ eng.invocations = k
            /\ eng.pc \in {"waiting", "done"}
            /\ eng.pc = "done" =>
                  /\ eng.final.kind = "return"
                  /\ eng.final.value = k

C3_Witness ==
    /\ eng.pc = "done" /\ eng.final.kind = "return"
    /\ observed = <<"retryable_http", "retryable_http", "ok">>
    /\ eng.final.value = 3

\* C4 (as claimed): a backoff sleep happens only between two consecutive
\* attempts: 2^i seconds after failed attempt i and only when attempt i+1
\* follows, so a run that exhausts max_retries attempts sleeps exactly
\* max_retries - 1 times.
C4_SleepOnlyBetweenAttempts ==
    /\ \A k \in 1..Len(eng.sleeps) :
          /\ eng.sleeps[k].secs = Pow2(eng.sleeps[k].after)
          /\ eng.sleeps[k].after + 1 < eng.max_retries
    /\ (eng.pc = "done" /\ eng.final.exc = APIErr /\ eng.max_retries > 0) =>
          Len(eng.sleeps) = eng.max_retries - 1

\* C5 (as claimed): replacing a 503 failure by a timeout leaves the number
\* of invocations, the sequence of backoff sleeps and the final outcome
\* (result or APIError) unchanged.
C5_TimeoutLike503 ==
    eng.pc = "done" =>
        /\ twin.pc = "done"
        /\ twin.invocations = eng.invocations
        /\ SleepSecs(twin) = SleepSecs(eng)
        /\ twin.final.kind = eng.final.kind
        /\ twin.final.exc = eng.final.exc
        /\ twin.final.value = eng.final.value

\* C6 (as claimed): every remote call is bounded per attempt by the
\* timeout: when the wrapped call never returns, the engine has stopped
\* waiting for that attempt once api_timeout has elapsed.
C6_AttemptBoundedByTimeout ==
    (eng.call.timing = "hang" /\ eng.elapsed) =>
        eng.pc \notin {"waiting", "joining"}

\* a cloud operation has failed on a remote call whose last attempt ended
\* with HTTP status s
EndedWithHttp(s) ==
    /\ op.phase = "finished" /\ op.kind \in {"cloud_read", "cloud_write"}
    /\ ~result.success
    /\ eng.final.kind = "raise"
    /\ eng.call.res = Res("raise", HttpErr(s))

\* C7 (as claimed): for every cloud read and write, a remote call ending
\* with 404 gives the "not found" message, 403 the "permission" message,
\* any other status the generic "error occurred" message with the raw
\* error description.
C7_HttpStatusToMessage ==
    \A s \in HttpStatuses :
        EndedWithHttp(s) =>
            /\ s = 404 => result.error = "not_found"
            /\ s = 403 => result.error = "permission"
            /\ s \notin {403, 404} =>
                  result.error = "error_occurred" /\ result.detail = HttpErr(s)

\* C7 (amended): 403 gives the "permission" message for reads and writes;
\* 404 gives the "not found" message for reads only; every other
\* non-retryable status, and 404 for writes, gives the generic "error
\* occurred" message with the raw error description; a retryable status
\* that exhausted the retries gives the "unexpected error" message with the
\* APIError text.
C7_HttpStatusToMessageAmended ==
    \A s \in HttpStatuses :
        EndedWithHttp(s) =>
            /\ s = 403 => result.error = "permission"
            /\ (s = 404 /\ op.kind = "cloud_read") => result.error = "not_found"
            /\ (s \notin RetryableStatuses
                /\ (s \notin {403, 404} \/ (s = 404 /\ op.kind = "cloud_write"))) =>
                  result.error = "error_occurred" /\ result.detail = HttpErr(s)
            /\ s \in RetryableStatuses =>
                  result.error = "unexpected_error" /\ result.detail = APIErr

C7_Witness ==
    /\ EndedWithHttp(404) /\ op.name = "read_spreadsheet" /\ op.idx = 2
    /\ result.error = "not_found"

\* C8: every ReadResult and WriteResult handed back is a well-formed tagged
\* outcome: success means error is null and the payload is set (content for
\* a read; exactly one of output_path and url for a write); failure means a
\* non-empty error string and every payload field null.
C8_ResultWellFormed ==
    /\ result.ret = "ReadResult" =>
          IF result.success
          THEN result.error = "null" /\ result.content = "set"
          ELSE result.error \notin {"null", ""} /\ result.content = "null"
    /\ result.ret = "WriteResult" =>
          IF result.success
          THEN /\ result.error = "null"
               /\ (result.output_path = "set") # (result.url = "set")
          ELSE /\ result.error \notin {"null", ""}
               /\ result.output_path = "null" /\ result.url = "null"

C8_Witness ==
    /\ result.ret = "WriteResult" /\ ~result.success
    /\ op.name = "create_spreadsheet" /\ op.idx = 3

\* C9 (as claimed): reading a path that does not exist with the PowerPoint,
\* Word or Excel reader returns a ReadResult with success = false, an error
\* and no content; the reader does not raise.
C9_MissingFileGivesFailedResult ==
    (op.kind = "local_read" /\ op.phase = "finished" /\ op.file = "missing") =>
        /\ result.ret = "ReadResult"
        /\ ~result.success
        /\ result.error # "null"
        /\ result.content = "null"

\* C10 (as claimed): the PowerPoint writer given input that fails validation
\* (no "slides" key, slides not a list, a slide that is not a mapping, a
\* layout outside {title, content, bullet} at any position) returns a failed
\* WriteResult instead of raising, and no file is at the target path.
C10_InvalidDeckGivesFailedResult ==
    (/\ op.name = "PowerPointWriter" /\ op.phase = "finished"
     /\ PowerPointValidateData(op.data) \in
            {"key_missing", "not_a_list", "slide_not_dict", "layout_invalid"}) =>
        /\ result.ret = "WriteResult"
        /\ ~result.success
        /\ fs = "absent"

\* C11 (as claimed): a cloud create operation validates its input before
\* any remote call: input without the top-level key (sheets / sections /
\* slides), or with something other than a list under it, gives a failed
\* WriteResult and the remote create call is never issued.
C11_CloudValidatesBeforeCreate ==
    (op.kind = "cloud_write" /\ op.data.top \in {"nokey", "notlist"}) =>
        /\ ~remote.issued
        /\ op.phase = "finished" =>
              result.ret = "WriteResult" /\ ~result.success

\* C12 (as claimed): a generation operation that returned a failed
\* WriteResult has left no native object behind: no file is at the local
\* output path and no remote document has been created.
C12_FailedWriteLeavesNothing ==
    (/\ op.phase = "finished"
     /\ op.kind \in {"local_write", "handle_write", "cloud_write"}
     /\ result.ret = "WriteResult" /\ ~result.success) =>
        /\ fs = "absent"
        /\ remote.object = "none"

\* a tool handler has returned
HandlerReturned ==
    /\ op.phase = "finished"
    /\ op.kind \in {"handle_read", "handle_write", "cloud_read", "cloud_write"}

\* C13 (as claimed): for any arguments and any exception raised below it, a
\* tool handler returns a response value, and a failure response is the
\* mapping {success: false, error: {type, message, details}}.
C13_HandlerFailureShape ==
    HandlerReturned =>
        /\ response # NoResponse
        /\ (response.isError \/ response.text.success = "false") =>
              /\ response.keys = {"success", "error"}
              /\ response.text.success = "false"
              /\ response.text.errkeys = {"type", "message", "details"}

\* the reader or writer below a local handler came back with a success
UnderlyingSucceeded ==
    \/ result.ret \in {"dict", "str"}
    \/ result.ret \in {"ReadResult", "WriteResult"} /\ result.success

\* C14 (as claimed): a local read or write handler returns a success
\* response (success = true, with format_type and content for a read, with
\* output_path for a write) exactly when the reader or writer below it
\* succeeded, and a failure response otherwise.
C14_HandlerSuccessIffUnderlying ==
    (op.phase = "finished" /\ op.kind \in {"handle_read", "handle_write"}) =>
        IF UnderlyingSucceeded
        THEN /\ ~response.isError
             /\ response.text.success = "true"
             /\ IF op.kind = "handle_read"
                THEN {"format_type", "content"} \subseteq response.text.keys
                ELSE "output_path" \in response.text.keys
        ELSE response.text.success = "false"

\* a helper run of fn has returned
Returned(fn) == calc.fn = fn /\ calc.pc = "done"

\* C15 (as claimed): for a workbook with more sheets than max_sheets the
\* Excel reader returns a ReadResult with success = true, holding exactly
\* the first max_sheets sheets in workbook order, whose sheet_count
\* metadata equals max_sheets.
C15_SheetLimitResult ==
    (/\ Returned("ExcelReader.read_file")
     /\ Len(calc.input.sheetnames) > calc.input.max_sheets) =>
        /\ calc.out.sheets =
              SubSeq(calc.input.sheetnames, 1, calc.input.max_sheets)
        /\ calc.out.ret = "ReadResult"
        /\ {"success", "metadata"} \subseteq calc.out.keys

\* C16: for a deck with more slides than max_slides the PowerPoint reader
\* returns exactly the first max_slides slides in the deck's order,
\* numbered 1..max_slides, with a warning that names the original slide
\* count; the warning is there if and only if slides were dropped.
C16_SlideLimitWarning ==
    Returned("PowerPointReader.read_file") =>
        LET slides == calc.input.slides
            max_slides == calc.input.max_slides
            out == calc.out
        IN  /\ Len(slides) > max_slides =>
                  /\ Len(out.slides) = max_slides
                  /\ \A i \in 1..max_slides :
                        /\ out.slides[i].slide = slides[i]
                        /\ out.slides[i].slide_number = i
                  /\ out.warning.present
                  /\ out.warning.total = Len(slides)
            /\ out.warning.present <=> Len(out.slides) < Len(slides)
            /\ "warning" \in out.keys <=> out.warning.present

C16_Witness ==
    /\ Returned("PowerPointReader.read_file")
    /\ calc.input.slides = <<2, 3, 1>> /\ calc.input.max_slides = 2
    /\ Len(calc.out.slides) = 2 /\ calc.out.warning.total = 3

\* C17 (as claimed): heading-level derivation returns N for the style name
\* "Heading N" with N in 1..9 and 0 for every other name, and never raises.
C17_HeadingLevelTotal ==
    Returned("_get_heading_level") =>
        LET name == calc.input
            isHeadingN == /\ Len(name) = 3
                          /\ name[1] = "Heading" /\ name[2] = " "
                          /\ name[3] \in Digits \ {"0"}
        IN  /\ calc.out.kind = "return"
            /\ calc.out.level = IF isHeadingN THEN DigitValue(name[3]) ELSE 0

\* the number a string of capital letters stands for in bijective base 26
RECURSIVE Base26Value(_)
Base26Value(letters) ==
    IF letters = << >> THEN 0
    ELSE 26 * Base26Value(SubSeq(letters, 1, Len(letters) - 1))
         + (letters[Len(letters)] - OrdA + 1)

\* C18: _get_column_letter gives every positive column index its bijective
\* base-26 letter string (1->A, 26->Z, 27->AA, 52->AZ, 53->BA, 702->ZZ,
\* 703->AAA); it terminates (col_idx stays non-negative and every pass
\* lowers it), and distinct indices give distinct strings (the string
\* determines the index).
C18_ColumnLetterBijective ==
    calc.fn = "_get_column_letter" =>
        /\ calc.pc = "loop" =>
              /\ calc.local.col_idx >= 0
              /\ calc.local.iterations + calc.local.col_idx <= calc.input
        /\ calc.pc = "done" =>
              /\ calc.out # << >>
              /\ \A i \in 1..Len(calc.out) : calc.out[i] \in OrdA..(OrdA + 25)
              /\ Base26Value(calc.out) = calc.input
              /\ calc.input = 1 => calc.out = <<65>>
              /\ calc.input = 26 => calc.out = <<90>>
              /\ calc.input = 27 => calc.out = <<65, 65>>
              /\ calc.input = 52 => calc.out = <<65, 90>>
              /\ calc.input = 53 => calc.out = <<66, 65>>
              /\ calc.input = 702 => calc.out = <<90, 90>>
              /\ calc.input = 703 => calc.out = <<65, 65, 65>>

C18_Witness ==
    /\ Returned("_get_column_letter")
    /\ calc.input = 703 /\ calc.out = <<65, 65, 65>>
    /\ calc.local.iterations = 3

C20_RaggedTableRoundTrip ==
    Returned("_create_table") =>
        /\ Len(calc.out.data) = Len(calc.input)
        /\ calc.out.rows = Len(calc.input)
        /\ \A r \in 1..Len(calc.out.data) :
              /\ Len(calc.out.data[r]) = calc.out.columns
              /\ \A c \in 1..calc.out.columns :
                    c > Len(calc.input[r]) => calc.out.data[r][c] = ""

C20_Witness ==
    /\ Returned("_create_table")
    /\ calc.input = <<(<<Str("a"), Str(" b ")>>), (<<Str("a")>>)>>
    /\ calc.out.columns = 2
    /\ calc.out.data = <<(<<"a", "b">>), (<<"a", "">>)>>

\* C23: one call of _execute_with_retry invokes the wrapped function at
\* most max_retries times, and every invocation but the latest ended with a
\* retryable failure: nothing is invoked after the first success or the
\* first non-retryable failure.
C23_InvocationsBounded ==
    /\ eng.invocations <= eng.max_retries
    /\ eng.invocations = Len(observed)
    /\ \A i \in 1..Len(observed) - 1 : observed[i] \in RetryableClasses
    /\ eng.pc = "done" /\ eng.final.kind = "return" =>
          Last(observed) = "ok"

C23_Witness ==
    /\ eng.pc = "done" /\ eng.max_retries = DefaultMaxRetries
    /\ observed = <<"network", "terminal_http">>
    /\ eng.invocations = 2 /\ eng.final.exc = HttpErr(403)

\* C24: when _execute_with_retry has returned or raised, no worker it
\* started is still running the wrapped call, and two invocations of one
\* engine call are never in flight together.
C24_WorkerScopedToAttempt ==
    /\ eng.inflight <= 1
    /\ eng.pc = "done" => eng.inflight = 0
    /\ eng.pc = "loop" => eng.inflight = 0

C24_Witness ==
    /\ eng.side = "reader" /\ eng.pc = "done"
    /\ observed = <<"timeout", "ok">>
    /\ eng.final.kind = "return" /\ eng.inflight = 0

\* C30 (as claimed): for every max_retries the constructor accepts, 0
\* included, _execute_with_retry has invoked the wrapped function at least
\* once when it reports failure.
C30_AttemptBeforeFailure ==
    (eng.pc = "done" /\ eng.final.kind = "raise") => eng.invocations >= 1

\* C25: create_spreadsheet sends its remote calls in a fixed order, each
\* through _execute_with_retry: spreadsheets.create first; the first sheet's
\* values.update and then its rename only after the create call returned;
\* for every further sheet its addSheet right before its values.update; and
\* no call is sent after a call has failed for good.
C25_SpreadsheetCallOrder ==
    op.name = "create_spreadsheet" =>
        LET c == remote.calls
        IN  /\ \A i \in 1..Len(c) :
                  /\ (c[i] = "spreadsheets.create") <=> (i = 1)
                  /\ c[i] = "batchUpdate.rename" =>
                        i = 3 /\ c[2] = "values.update"
                  /\ (c[i] = "values.update" /\ i > 2) =>
                        c[i - 1] = "batchUpdate.addSheet"
            /\ Len(c) = IF eng.invocations = 0 THEN op.idx - 1 ELSE op.idx
            /\ (eng.final.kind = "raise" \/ op.phase = "finished") =>
                  eng.pc = "done"

C25_Witness ==
    /\ op.name = "create_spreadsheet" /\ op.phase = "finished"
    /\ result.success
    /\ remote.calls = <<"spreadsheets.create", "values.update",
                        "batchUpdate.rename", "batchUpdate.addSheet",
                        "values.update">>

\* C26: extraction is all-or-nothing.  When the traversal of a local file
\* fails at some item, or a remote fetch of a cloud read fails after earlier
\* fetches succeeded, the operation reports failure (a raised error or a
\* failed result) and hands out none of the items already normalized; no
\* result carries content together with an error.
C26_ExtractionAllOrNothing ==
    (op.phase = "finished" /\ op.kind \in {"local_read", "cloud_read"}) =>
        /\ ~(result.content = "set" /\ result.error # "null")
        /\ result.ret = "raise" => result.content = "null"
        /\ (op.file = "unreadable" \/ eng.final.kind = "raise") =>
              /\ result.content = "null"
              /\ ~result.success
              /\ result.ret = "raise" \/ result.error # "null"

C26_Witness ==
    /\ op.name = "read_spreadsheet" /\ op.phase = "finished"
    /\ op.idx = 3 /\ eng.final.kind = "raise"
    /\ eng.final.exc = HttpErr(404)
    /\ result = ReadFailed("not_found", NoErr)

\* characters the insertText requests before request n put into the document
RECURSIVE InsertedBefore(_, _)
InsertedBefore(reqs, n) ==
    IF n <= 1 THEN 0
    ELSE InsertedBefore(reqs, n - 1) +
         (IF reqs[n - 1].kind = "insertText" THEN Len(reqs[n - 1].text) ELSE 0)

\* C27 (as claimed): in create_document the cursor starts at 1 and moves by
\* len(text) + 1 after every insertion, so every insertText request is
\* addressed at 1 + the sum of len(t) + 1 over the texts of the earlier
\* requests; empty strings are not inserted; and the style range of a
\* heading covers exactly the text inserted for it.
C27_CursorIsSumOfInsertedText ==
    Returned("GoogleWorkspaceWriter.create_document") =>
        LET reqs == calc.out
        IN  \A i \in 1..Len(reqs) :
                /\ reqs[i].kind = "insertText" =>
                      /\ reqs[i].index = 1 + InsertedBefore(reqs, i)
                      /\ Len(reqs[i].text) >= 2
                /\ reqs[i].kind = "updateParagraphStyle" =>
                      /\ i > 1 /\ reqs[i - 1].kind = "insertText"
                      /\ reqs[i].index = reqs[i - 1].index
                      /\ reqs[i].endIndex
                            = reqs[i - 1].index + Len(reqs[i - 1].text)

\* C28 (as claimed): create_slides populates every input slide: for each
\* input slide, the first and the later ones, with a non-empty title or
\* content, the requests hold an insertText carrying that title / content
\* (checked where the new presentation's first slide has both placeholders).
C28_EverySlidePopulated ==
    (/\ Returned("GoogleWorkspaceWriter.create_slides")
     /\ calc.input.placeholders = [title |-> TRUE, subtitle |-> TRUE]) =>
        LET slides == calc.input.slides
            carried(text) ==
                text # << >> =>
                    \E k \in 1..Len(calc.out) :
                        /\ calc.out[k].kind = "insertText"
                        /\ calc.out[k].text = text
        IN  \A i \in 1..Len(slides) :
                carried(slides[i].title) /\ carried(slides[i].content)

\* the non-blank lines of a content string, stripped, in input order
NonBlankLines(content) ==
    LET lines == SplitOnNewline(content)
        stripped == [i \in 1..Len(lines) |-> StripLine(lines[i])]
    IN  SelectSeq(stripped, LAMBDA l : l # << >>)

\* C29 (as claimed): for a bullet slide whose content is one string with at
\* least one non-blank line, the body placeholder ends with exactly one
\* paragraph per non-blank line, in input order and at level 0, the first
\* non-blank line in the placeholder's first paragraph, wherever the blank
\* lines are.
C29_OneParagraphPerLine ==
    (Returned("_create_bullet_slide") /\ NonBlankLines(calc.input) # << >>) =>
        /\ Len(calc.out) = Len(NonBlankLines(calc.input))
        /\ \A i \in 1..Len(calc.out) :
              /\ calc.out[i].text = NonBlankLines(calc.input)[i]
              /\ calc.out[i].level = 0

\* C22 (as claimed): every sheet of a generated workbook has a name of at
\* most 31 characters: a longer input name is cut to its first 31 characters
\* and the generation still succeeds.
C22_SheetNameTruncated ==
    Returned("ExcelWriter.create_workbook") =>
        LET names == calc.input.names
        IN  /\ calc.out.success
            /\ Len(calc.out.sheetnames) = Len(names)
            /\ \A i \in 1..Len(calc.out.sheetnames) :
                  /\ Len(calc.out.sheetnames[i]) <= ExcelTitleLimit
                  /\ calc.out.sheetnames[i]
                        = SubSeq(names[i], 1, Min(Len(names[i]), ExcelTitleLimit))

\* the default limit of the reader of a format
DefaultLimit(format) ==
    IF format = "pptx" THEN DefaultMaxSlides ELSE DefaultMaxSheets

\* C21 (as claimed): when a local writer accepted its input, reading the
\* generated file with the reader of the format and its default limits
\* gives as many slides as input slide entries and as many sheets as input
\* sheet entries.
C21_RoundTripCardinality ==
    (Returned("roundtrip") /\ calc.out.generated) =>
        Len(calc.out.items) = calc.input.entries

\* C21 (amended): the reader gives as many items as entries up to its
\* default limit (500 slides, 100 sheets); beyond the limit it gives the
\* first `limit` items, in input order, and a warning naming the full count.
C21_RoundTripCardinalityAmended ==
    (Returned("roundtrip") /\ calc.out.generated) =>
        LET n == calc.input.entries
            limit == DefaultLimit(calc.input.format)
        IN  /\ Len(calc.out.items) = Min(n, limit)
            /\ calc.out.warning.present <=> n > limit
            /\ n > limit => calc.out.warning = Warning(n, limit)
            /\ calc.input.format = "pptx" =>
                  \A i \in 1..Len(calc.out.items) :
                      calc.out.items[i].slide.entry = i
            /\ calc.input.format = "xlsx" =>
                  \A i \in 1..Len(calc.out.items) : calc.out.items[i] = <<i>>

C21_Witness ==
    /\ Returned("roundtrip") /\ calc.out.generated
    /\ calc.input.format = "pptx"
    /\ calc.input.entries = DefaultMaxSlides + 1
    /\ Len(calc.out.items) = DefaultMaxSlides
    /\ calc.out.warning.present

====
